---- MODULE Spec2Model ----
(***************************************************************************)
(* Model of src/src/vendas_farma_conde.py: the daily "Farma Conde" report. *)
(* main() computes yesterday's window, loads the seller directory, lists   *)
(* the invoiced orders page by page, fetches every order's detail on a     *)
(* thread pool, projects report rows, writes the raw spreadsheet,          *)
(* circularizes it (installment due dates) and mails the result.           *)
(*                                                                         *)
(* Conventions                                                             *)
(*   - a Python str is a sequence of one-character strings;                *)
(*   - None / NaN / an empty spreadsheet cell is <<>>, a value v is <<v>>; *)
(*   - a date is a record [y, m, d];                                       *)
(*   - a float amount value/100 is a two-place decimal [int, cent].        *)
(***************************************************************************)
EXTENDS Integers, Sequences, FiniteSets, TLC

(***************************************************************************)
(* Bounds of the model.                                                    *)
(***************************************************************************)
MaxOrders == 5
MaxPages == 3
MaxTx == 2
MaxPay == 2
MaxRows == 2
NumYears == 2
MaxParcelas == 14

(***************************************************************************)
(* Program constants.                                                      *)
(***************************************************************************)
PER_PAGE == 100
MAX_PARCELAS == 12
POOL_CAP == 32
CPU_FACTOR == 4
TZ_BR_HOURS == 3

None == <<>>
Some(v) == <<v>>
IsNone(c) == c = <<>>
Val(c) == c[1]

Min(a, b) == IF a <= b THEN a ELSE b

(***************************************************************************)
(* Strings.                                                                *)
(***************************************************************************)
LowerChar(c) ==
  CASE c = "A" -> "a" [] c = "C" -> "c" [] c = "F" -> "f" [] c = "I" -> "i"
    [] c = "M" -> "m" [] c = "N" -> "n" [] c = "S" -> "s" [] OTHER -> c

\* str.lower()
Lower(s) == [i \in 1..Len(s) |-> LowerChar(s[i])]

RECURSIVE LStrip(_)
LStrip(s) == IF s # <<>> /\ Head(s) = " " THEN LStrip(Tail(s)) ELSE s

RECURSIVE RStrip(_)
RStrip(s) ==
  IF s # <<>> /\ s[Len(s)] = " " THEN RStrip(SubSeq(s, 1, Len(s) - 1)) ELSE s

\* str.strip()
Strip(s) == RStrip(LStrip(s))

\* str.split(";"): always at least one token
RECURSIVE SplitAcc(_, _, _)
SplitAcc(s, cur, acc) ==
  IF s = <<>> THEN Append(acc, cur)
  ELSE IF Head(s) = ";" THEN SplitAcc(Tail(s), <<>>, Append(acc, cur))
  ELSE SplitAcc(Tail(s), Append(cur, Head(s)), acc)

Split(s) == SplitAcc(s, <<>>, <<>>)

\* str(cell) of a spreadsheet cell: an empty cell is the float NaN, "nan"
StrOfCell(c) == IF IsNone(c) THEN <<"n", "a", "n">> ELSE Val(c)

S_nan == <<"n", "a", "n">>
S_sim == <<"s", "i", "m">>
S_farmaconde == <<"f", "a", "r", "m", "a", "c", "o", "n", "d", "e">>

\* mutant: the "nan" tokens kept
RECURSIVE limpar_emails_nan(_)
limpar_emails_nan(lista) ==
  IF lista = <<>> THEN <<>>
  ELSE LET e == Head(lista)
           e_str == Strip(e)
           rest == limpar_emails_nan(Tail(lista))
       IN IF e = <<>> THEN rest
          ELSE IF e_str = <<>> THEN rest
          ELSE <<e_str>> \o rest

\* limpar_emails: keeps the stripped tokens that are neither empty nor "nan"
RECURSIVE limpar_emails(_)
limpar_emails(lista) ==
  IF lista = <<>> THEN <<>>
  ELSE LET e == Head(lista)
           e_str == Strip(e)
           rest == limpar_emails(Tail(lista))
       IN IF e = <<>> THEN rest
          ELSE IF e_str = <<>> \/ Lower(e_str) = S_nan THEN rest
          ELSE <<e_str>> \o rest

(***************************************************************************)
(* Calendar.                                                               *)
(***************************************************************************)
IsLeap(y) == (y % 4 = 0 /\ y % 100 # 0) \/ y % 400 = 0

DaysInMonth(y, m) ==
  IF m = 2 THEN (IF IsLeap(y) THEN 29 ELSE 28)
  ELSE IF m \in {4, 6, 9, 11} THEN 30 ELSE 31

Date(y, m, d) == [y |-> y, m |-> m, d |-> d]

\* days since 1970-01-01 of a proleptic Gregorian date
DayNumber(dt) ==
  LET yy == IF dt.m <= 2 THEN dt.y - 1 ELSE dt.y
      era == yy \div 400
      yoe == yy - era * 400
      mp == (dt.m + 9) % 12
      doy == ((153 * mp + 2) \div 5) + dt.d - 1
      doe == (yoe * 365) + (yoe \div 4) - (yoe \div 100) + doy
  IN (era * 146097) + doe - 719468

\* Timestamp.weekday(): Monday = 0 .. Sunday = 6
Weekday(dt) == (DayNumber(dt) + 3) % 7

NextDay(dt) ==
  IF dt.d < DaysInMonth(dt.y, dt.m) THEN Date(dt.y, dt.m, dt.d + 1)
  ELSE IF dt.m < 12 THEN Date(dt.y, dt.m + 1, 1)
  ELSE Date(dt.y + 1, 1, 1)

PrevDay(dt) ==
  IF dt.d > 1 THEN Date(dt.y, dt.m, dt.d - 1)
  ELSE IF dt.m > 1 THEN Date(dt.y, dt.m - 1, DaysInMonth(dt.y, dt.m - 1))
  ELSE Date(dt.y - 1, 12, 31)

\* ts + pd.DateOffset(months=k): the day is clamped to the target month
AddMonths(dt, k) ==
  LET t == (dt.m - 1) + k
      y2 == dt.y + (t \div 12)
      m2 == (t % 12) + 1
  IN Date(y2, m2, Min(dt.d, DaysInMonth(y2, m2)))

\* ts.replace(day=n)
ReplaceDay(dt, n) == Date(dt.y, dt.m, n)

\* mutant: one calendar day added instead of one business day
BDay1_dia(dt) == NextDay(dt)

\* ts + BDay(1): the next business day (from a weekend day, the Monday)
BDay1(dt) ==
  LET wd == Weekday(dt)
  IN IF wd = 4 THEN NextDay(NextDay(NextDay(dt)))
     ELSE IF wd = 5 THEN NextDay(NextDay(dt))
     ELSE NextDay(dt)

DigitChars == <<"0", "1", "2", "3", "4", "5", "6", "7", "8", "9">>
Dig(n) == DigitChars[n + 1]
DigVal(c) == CHOOSE n \in 0..9 : DigitChars[n + 1] = c

\* strftime("%d/%m/%Y")
StrfDMY(dt) ==
  << Dig(dt.d \div 10), Dig(dt.d % 10), "/",
     Dig(dt.m \div 10), Dig(dt.m % 10), "/",
     Dig(dt.y \div 1000), Dig((dt.y \div 100) % 10),
     Dig((dt.y \div 10) % 10), Dig(dt.y % 10) >>

\* pd.to_datetime(..., dayfirst=True) of a dd/mm/yyyy string
ParseDMY(s) ==
  Date((DigVal(s[7]) * 1000) + (DigVal(s[8]) * 100) + (DigVal(s[9]) * 10) + DigVal(s[10]),
       (DigVal(s[4]) * 10) + DigVal(s[5]),
       (DigVal(s[1]) * 10) + DigVal(s[2]))

\* formatar_data_curta: an ISO instant (UTC date and hour) rendered as the
\* dd/mm/yyyy of its local date in UTC-3; "" for a missing value
formatar_data_curta(iso) ==
  IF IsNone(iso) THEN <<>>
  ELSE LET t == Val(iso)
       IN StrfDMY(IF t.hour < TZ_BR_HOURS THEN PrevDay(t.date) ELSE t.date)

(***************************************************************************)
(* Row Projector.                                                          *)
(***************************************************************************)
\* value / 100 of an integer amount in minor units
Cents(v) == [int |-> v \div 100, cent |-> v % 100]

\* the default 0.0
Zero == Cents(0)

\* itens + frete
DecAdd(a, b) ==
  [int |-> a.int + b.int + ((a.cent + b.cent) \div 100),
   cent |-> (a.cent + b.cent) % 100]

\* get_total: the first entry tagged code, divided by 100; 0.0 when absent
RECURSIVE get_total(_, _)
get_total(totals, code) ==
  IF totals = <<>> THEN Zero
  ELSE IF Head(totals).id = code THEN Cents(Head(totals).value)
  ELSE get_total(Tail(totals), code)

\* the ids of the order's seller participants
SellerIds(order) == {order.sellers[i].id : i \in 1..Len(order.sellers)}

\* mutant: the ids compared without regard to case, as main selects the seller
Participa_ci(order, seller) ==
  Lower(seller.id) \in {Lower(order.sellers[i].id) : i \in 1..Len(order.sellers)}

\* the seller took part in the order
Participa(order, seller) == seller.id \in SellerIds(order)

\* the row of one payment
Linha(order, seller, p) ==
  [Faturado |-> formatar_data_curta(order.invoicedDate),
   Pedido |-> order.orderId,
   Seller |-> seller.display,
   Total_itens |-> get_total(order.totals, "Items"),
   Frete |-> get_total(order.totals, "Shipping"),
   Valor_total |-> DecAdd(get_total(order.totals, "Items"),
                          get_total(order.totals, "Shipping")),
   Parcelas |-> p.installments]

\* the rows of the payments of one transaction
LinhasTx(order, seller, tx) ==
  [j \in 1..Len(tx.payments) |-> Linha(order, seller, tx.payments[j])]

RECURSIVE LinhasTxs(_, _, _)
LinhasTxs(order, seller, txs) ==
  IF txs = <<>> THEN <<>>
  ELSE LinhasTx(order, seller, Head(txs)) \o LinhasTxs(order, seller, Tail(txs))

\* gerar_linhas
gerar_linhas(order, seller) ==
  IF ~Participa(order, seller) THEN <<>>
  ELSE LinhasTxs(order, seller, order.transactions)

(***************************************************************************)
(* Spreadsheet files and circularizar.                                     *)
(***************************************************************************)
\* DataFrame.drop_duplicates(): the first occurrence of every row is kept
RECURSIVE DropDup(_, _)
DropDup(rows, seen) ==
  IF rows = <<>> THEN <<>>
  ELSE IF Head(rows) \in seen THEN DropDup(Tail(rows), seen)
  ELSE <<Head(rows)>> \o DropDup(Tail(rows), seen \cup {Head(rows)})

drop_duplicates(rows) == DropDup(rows, {})

\* pd.DataFrame(linhas).drop_duplicates().to_excel(...): a frame built from
\* no row has no column at all
ToExcel(rows) ==
  [header |-> IF rows = <<>> THEN {}
              ELSE {"Faturado em", "Pedido", "Seller", "Total_itens", "Frete",
                    "Valor_total", "Parcelas"},
   rows |-> drop_duplicates(rows)]

\* "not r['Parcelas']": NaN is truthy, only 0 is falsy
SemParcelas(c) == IF IsNone(c) THEN FALSE ELSE Val(c) = 0

\* mutant: the installment count taken without the cap of 12
MinParcelas_nocap(c) == c

\* min(r["Parcelas"], 12): min(nan, 12) is nan
MinParcelas(c) == IF IsNone(c) THEN None ELSE Some(Min(Val(c), MAX_PARCELAS))

\* the p-th due date (p = 1, 2, ...) of a row invoiced on fat
Vencimento(fat, p) ==
  LET d == ReplaceDay(AddMonths(fat, p), 15)
  IN IF Weekday(d) >= 5 THEN BDay1(d) ELSE d

\* df.at[i, "Parcela p"] = v: a column that does not exist is created
SetParcela(cols, p, v) ==
  [c \in (DOMAIN cols) \cup {p} |-> IF c = p THEN v ELSE cols[c]]

\* the inner loop "for p in range(k)", from index p on
RECURSIVE Preencher(_, _, _, _)
Preencher(cols, fat, p, k) ==
  IF p >= k THEN cols
  ELSE Preencher(SetParcela(cols, p + 1, Some(StrfDMY(Vencimento(fat, p + 1)))),
                 fat, p + 1, k)

\* one row of the frame: the 12 empty columns, then the loop body.
\* int(nan) raises ValueError.
CircRow(r) ==
  LET vazio == [c \in 1..MAX_PARCELAS |-> None]
      fat == ParseDMY(r.Faturado)
      base == [raw |-> r, fat |-> fat, parc |-> vazio]
  IN IF SemParcelas(r.Parcelas) THEN [ok |-> TRUE, row |-> base]
     ELSE IF IsNone(MinParcelas(r.Parcelas)) THEN [ok |-> FALSE, row |-> base]
     ELSE [ok |-> TRUE,
           row |-> [base EXCEPT !.parc =
                      Preencher(vazio, fat, 0, Val(MinParcelas(r.Parcelas)))]]

\* circularizar: the frame read back and deduplicated, the 12 columns added
\* and filled row by row; the file is written only when no row raised.
circularizar(file) ==
  LET df == drop_duplicates(file.rows)
      out == [i \in 1..Len(df) |-> CircRow(df[i])]
  IN IF "Faturado em" \notin file.header
       THEN [ok |-> FALSE, exc |-> "KeyError", rows |-> <<>>]
     ELSE IF \E i \in 1..Len(df) : ~out[i].ok
       THEN [ok |-> FALSE, exc |-> "ValueError", rows |-> <<>>]
     ELSE [ok |-> TRUE, exc |-> "", rows |-> [i \in 1..Len(df) |-> out[i].row]]

(***************************************************************************)
(* Inputs: the seller directory, the remote API, the machine.              *)
(***************************************************************************)
S_other == <<"o", "t", "h", "e", "r">>
S_FarmaConde == <<"F", "a", "r", "m", "a", " ", "C", "o", "n", "d", "e">>
S_ax == <<"a", "@", "x">>
S_by == <<"b", "@", "y">>
S_cz == <<"c", "@", "z">>

ConfigRow(ativo, id, name, to, cc) ==
  [ativo |-> ativo, sellerId |-> id, sellerName |-> name, emailTo |-> to,
   emailCc |-> cc]

\* config/email_farmaconde.xlsx, as it may be filled in
CfgEnvia ==
  \* the target seller after a row with no "ativo"; junk around the recipients
  << ConfigRow(None, Some(S_other), Some(S_other), Some(S_by), None),
     ConfigRow(Some(<<"S", "i", "m", " ">>), Some(S_farmaconde \o <<" ">>),
               Some(S_FarmaConde),
               Some(<<" ", "N", "a", "N", " ", ";", " ">> \o S_ax \o <<" ", ";">>
                    \o S_by),
               Some(<<";", " ", "c", "@", "z", " ">>)) >>

CfgSemTo ==
  \* the target seller after another active one; no usable recipient
  << ConfigRow(Some(S_sim), Some(S_other), Some(S_other), Some(S_by), None),
     ConfigRow(Some(<<"S", "I", "M">>), Some(S_farmaconde), Some(S_FarmaConde),
               Some(<<" ", ";", " ", "n", "a", "n", ";">>), Some(S_cz)) >>

CfgInativo ==
  \* the target seller switched off
  << ConfigRow(Some(<<"n", "a", "o">>), Some(S_farmaconde), Some(S_FarmaConde),
               Some(S_ax), None),
     ConfigRow(Some(S_sim), Some(S_other), Some(S_other), Some(S_by), None) >>

\* the answers of the detail endpoint: a record, an empty body, a status
\* other than 200, a timeout or another exception of the HTTP client
DetailResps == {"ok", "empty", "status", "timeout"}

\* the runs of the job: os.cpu_count() of the machine (0 stands for None),
\* the seller directory found there, and what the detail endpoint answers
Ambientes ==
  { [cpu |-> 1, config |-> CfgEnvia, resps |-> DetailResps],
    [cpu |-> 0, config |-> CfgSemTo, resps |-> {"ok", "status"}],
    [cpu |-> 2, config |-> CfgInativo, resps |-> DetailResps] }

\* the clock of the run (America/Sao_Paulo, UTC-3)
Hojes == {Date(2024, 3, 1)}

\* the ids of the orders on one list page of n items
PageItems(page, n) == [j \in 1..n |-> [orderId |-> ((page - 1) * PER_PAGE) + j]]

\* what the detail endpoint holds for an order
DetailOf(id) ==
  LET k == id % 4
      eu == [id |-> S_farmaconde]
      outro == [id |-> S_other]
      pay(n) == [installments |-> n]
  IN [orderId |-> id,
      invoicedDate |->
        IF k = 3 THEN Some([date |-> Date(2024, 3, 1), hour |-> 1])
        ELSE Some([date |-> Date(2024, 2, 29), hour |-> 15]),
      sellers |-> IF k = 2 THEN <<outro>>
                  ELSE IF k = 3 THEN <<outro, eu>> ELSE <<eu>>,
      totals |-> IF k = 3 THEN << [id |-> "Shipping", value |-> 1090],
                                  [id |-> "Discounts", value |-> 0],
                                  [id |-> "Items", value |-> 9950] >>
                 ELSE IF k = 0 THEN << [id |-> "Items", value |-> 100] >>
                 ELSE << [id |-> "Items", value |-> 1990],
                         [id |-> "Shipping", value |-> 500] >>,
      transactions |->
        IF k = 3 THEN << [payments |-> <<pay(Some(1)), pay(Some(13))>>],
                         [payments |-> <<pay(Some(1))>>] >>
        ELSE IF k = 0 THEN << [payments |-> <<pay(None)>>] >>
        ELSE << [payments |-> <<pay(Some(3))>>] >>]

(***************************************************************************)
(* Helpers of main.                                                        *)
(***************************************************************************)
\* DEFAULT_MAX_WORKERS = min(32, (os.cpu_count() or 4) * 4)
DEFAULT_MAX_WORKERS(c) == Min(POOL_CAP, (IF c = 0 THEN 4 ELSE c) * CPU_FACTOR)

\* carregar_sellers: the active rows, cleaned
RECURSIVE carregar_sellers(_)
carregar_sellers(rows) ==
  IF rows = <<>> THEN <<>>
  ELSE LET r == Head(rows)
           rest == carregar_sellers(Tail(rows))
       IN IF Lower(Strip(StrOfCell(r.ativo))) # S_sim THEN rest
          ELSE << [id |-> Strip(StrOfCell(r.sellerId)),
                   display |-> Strip(StrOfCell(r.sellerName)),
                   emailTo |-> limpar_emails(Split(StrOfCell(r.emailTo))),
                   emailCc |-> limpar_emails(Split(StrOfCell(r.emailCc)))] >>
               \o rest

\* [s for s in sellers if s["id"].lower() == "farmaconde"]
RECURSIVE sellers_farma(_)
sellers_farma(ss) ==
  IF ss = <<>> THEN <<>>
  ELSE IF Lower(Head(ss).id) = S_farmaconde
    THEN <<Head(ss)>> \o sellers_farma(Tail(ss))
  ELSE sellers_farma(Tail(ss))

NoSeller == [id |-> <<>>, display |-> <<>>, emailTo |-> <<>>, emailCc |-> <<>>]

\* mutant: the body decoded whatever the status
detalhe_sem_status(order_id, resp) ==
  IF resp \in {"ok", "status"} THEN Some(DetailOf(order_id))
  ELSE IF resp = "empty" THEN Some(<<>>)
  ELSE None

\* detalhe: the decoded body on status 200, None otherwise and on any exception
detalhe(order_id, resp) ==
  IF resp = "ok" THEN Some(DetailOf(order_id))
  ELSE IF resp = "empty" THEN Some(<<>>)
  ELSE None

\* "if f.result()": None and an empty body are falsy
Truthy(result) == ~IsNone(result) /\ Val(result) # <<>>

\* detalhes[k] = v
DictSet(d, k, v) == [x \in (DOMAIN d) \cup {k} |-> IF x = k THEN v ELSE d[x]]

\* the projection loop of main over resumo
RECURSIVE Projetar(_, _, _)
Projetar(res, dets, s) ==
  IF res = <<>> THEN <<>>
  ELSE (IF Head(res).orderId \in DOMAIN dets
          THEN gerar_linhas(dets[Head(res).orderId], s) ELSE <<>>)
       \o Projetar(Tail(res), dets, s)

(***************************************************************************)
(* State.                                                                  *)
(***************************************************************************)
VARIABLES
  pc,        \* position of the main thread in main()
  steps,     \* history: the steps of main completed so far, in order
  thread,    \* history: the thread that took the last step
  hoje,      \* the clock
  cpu,       \* os.cpu_count()
  config,    \* the rows of the seller directory file
  lens,      \* the page lengths the list endpoint may answer with
  resps,     \* the answers the detail endpoint may give
  janela,    \* janela_ontem_utc()
  sellers,   \* carregar_sellers()
  seller,    \* sellers_farma[0]
  page,      \* listar_resumo: page
  orders,    \* listar_resumo: orders
  requests,  \* history: the list requests issued, with their outcome
  resumo,    \* main: resumo
  tasks,     \* the futures submitted to the pool, in submission order
  detalhes,  \* main: detalhes
  linhas,    \* main: linhas
  bruto,     \* the raw spreadsheet file, None until written
  final,     \* the circularized spreadsheet file, None until written
  smtp,      \* history: the SMTP sessions opened
  logs,      \* the messages logged
  exc,       \* the exception caught by main's handler
  arg,       \* Row Projector on its own: the arguments
  ret        \* Row Projector on its own: the result

vars ==
  << pc, steps, thread, hoje, cpu, config, lens, resps, janela, sellers, seller, page,
     orders, requests, resumo, tasks, detalhes, linhas, bruto, final, smtp,
     logs, exc, arg, ret >>

envVars == << hoje, cpu, config, lens, resps >>
listVars == << page, orders, requests, resumo >>
poolVars == << tasks, detalhes >>
outVars == << linhas, bruto, final, smtp >>
fnVars == << arg, ret >>

\* the steps of main, in program order
StepOrder ==
  << "window", "sellers", "select", "summaries", "details", "rows", "raw",
     "final", "email", "success" >>

\* main's "except Exception: traceback.print_exc()"
Raise(e) == pc' = "failed" /\ exc' = e

Init ==
  /\ pc = "janela"
  /\ steps = <<>>
  /\ thread = "main"
  /\ hoje \in Hojes
  /\ \E a \in Ambientes : cpu = a.cpu /\ config = a.config /\ resps = a.resps
  /\ lens = 0..MaxOrders
  /\ janela = None
  /\ sellers = <<>>
  /\ seller = NoSeller
  /\ page = 1
  /\ orders = <<>>
  /\ requests = <<>>
  /\ resumo = <<>>
  /\ tasks = <<>>
  /\ detalhes = <<>>
  /\ linhas = <<>>
  /\ bruto = None
  /\ final = None
  /\ smtp = <<>>
  /\ logs = <<>>
  /\ exc = ""
  /\ arg = None
  /\ ret = None

(***************************************************************************)
(* main, step by step.                                                     *)
(***************************************************************************)
\* janela_ontem_utc
JanelaOntem ==
  /\ pc = "janela"
  /\ janela' = Some([ontem |-> PrevDay(hoje), data_brt |-> StrfDMY(PrevDay(hoje))])
  /\ pc' = "carregar"
  /\ steps' = Append(steps, "window")
  /\ thread' = "main"
  /\ UNCHANGED << envVars, sellers, seller, listVars, poolVars, outVars, logs,
                  exc, fnVars >>

\* carregar_sellers
CarregarSellers ==
  /\ pc = "carregar"
  /\ sellers' = carregar_sellers(config)
  /\ logs' = Append(logs, "sellers")
  /\ pc' = "select"
  /\ steps' = Append(steps, "sellers")
  /\ thread' = "main"
  /\ UNCHANGED << envVars, janela, seller, listVars, poolVars, outVars, exc,
                  fnVars >>

\* the choice of the target seller; main returns when there is none
SelectSeller ==
  /\ pc = "select"
  /\ IF sellers_farma(sellers) = <<>>
       THEN /\ logs' = Append(logs, "no seller")
            /\ pc' = "returned"
            /\ UNCHANGED << seller, steps >>
       ELSE /\ seller' = Head(sellers_farma(sellers))
            /\ pc' = "list"
            /\ steps' = Append(steps, "select")
            /\ UNCHANGED logs
  /\ thread' = "main"
  /\ UNCHANGED << envVars, janela, sellers, listVars, poolVars, outVars, exc,
                  fnVars >>

\* mutant: a full page also ends the loop ("<=" for "<")
UltimaPagina_le(n) == n <= PER_PAGE

\* the loop of listar_resumo stops after this page
UltimaPagina(n) == n < PER_PAGE

\* one iteration of the loop of listar_resumo: the request for page `page`
\* and its answer (kind "ok" with n items, a status other than 200, or an
\* exception of the HTTP client, a timeout included)
ListPage(kind, n) ==
  /\ pc = "list"
  /\ (kind = "ok" /\ ~UltimaPagina(n)) => page < MaxPages
  /\ kind # "ok" => n = 0
  /\ requests' = Append(requests, [page |-> page, kind |-> kind, n |-> n])
  /\ thread' = "main"
  /\ IF kind = "raise"
       THEN /\ Raise("RequestException")
            /\ UNCHANGED << page, orders, resumo, steps >>
     ELSE IF kind = "status" \/ n = 0
       THEN /\ resumo' = orders
            /\ pc' = "pool"
            /\ steps' = Append(steps, "summaries")
            /\ UNCHANGED << page, orders, exc >>
     ELSE /\ orders' = orders \o PageItems(page, n)
          /\ page' = page + 1
          /\ IF UltimaPagina(n)
               THEN /\ resumo' = orders'
                    /\ pc' = "pool"
                    /\ steps' = Append(steps, "summaries")
               ELSE UNCHANGED << resumo, pc, steps >>
          /\ UNCHANGED exc
  /\ UNCHANGED << envVars, janela, sellers, seller, poolVars, outVars, logs,
                  fnVars >>

(***************************************************************************)
(* The thread pool of main: "with ThreadPoolExecutor(...) as ex".          *)
(***************************************************************************)
\* the number of detail requests in flight
EmVoo(ts) == Cardinality({i \in 1..Len(ts) : ts[i].st = "running"})

\* mutant: a thread per task, whatever max_workers is
PodeIniciar_livre(ts, i, c) ==
  /\ ts[i].st = "pending"
  /\ \A j \in 1..(i - 1) : ts[j].st # "pending"

\* a worker takes the oldest queued task, and the pool never has more than
\* max_workers threads
PodeIniciar(ts, i, c) ==
  /\ ts[i].st = "pending"
  /\ \A j \in 1..(i - 1) : ts[j].st # "pending"
  /\ EmVoo(ts) < DEFAULT_MAX_WORKERS(c)

\* mutant: the loop left at the first failed fetch
Esgotado_falha(ts, res) ==
  /\ Len(ts) = Len(res)
  /\ \/ \A i \in 1..Len(ts) : ts[i].st = "done" /\ ts[i].seen
     \/ \E i \in 1..Len(ts) : ts[i].seen /\ ts[i].resp # "ok"

\* as_completed(fut) has yielded every future
Esgotado(ts, res) ==
  /\ Len(ts) = Len(res)
  /\ \A i \in 1..Len(ts) : ts[i].st = "done" /\ ts[i].seen

\* ex.submit(detalhe, o["orderId"]) for the next order of resumo
Submit ==
  /\ pc = "pool"
  /\ Len(tasks) < Len(resumo)
  /\ tasks' = Append(tasks, [id |-> resumo[Len(tasks) + 1].orderId,
                             st |-> "pending", resp |-> "", seen |-> FALSE])
  /\ thread' = "main"
  /\ UNCHANGED << pc, steps, envVars, janela, sellers, seller, listVars,
                  detalhes, outVars, logs, exc, fnVars >>

\* a pool thread starts detalhe(order_id)
WorkerStart(i) ==
  /\ i \in 1..Len(tasks)
  /\ PodeIniciar(tasks, i, cpu)
  /\ tasks' = [tasks EXCEPT ![i].st = "running"]
  /\ thread' = "worker"
  /\ UNCHANGED << pc, steps, envVars, janela, sellers, seller, listVars,
                  detalhes, outVars, logs, exc, fnVars >>

\* detalhe(order_id) returns in a pool thread
WorkerFinish(i, resp) ==
  /\ i \in 1..Len(tasks)
  /\ tasks[i].st = "running"
  /\ resp \in resps
  /\ tasks' = [tasks EXCEPT ![i].st = "done", ![i].resp = resp]
  /\ thread' = "worker"
  /\ UNCHANGED << pc, steps, envVars, janela, sellers, seller, listVars,
                  detalhes, outVars, logs, exc, fnVars >>

\* one iteration of "for f in as_completed(fut)" in the main thread
Merge(i) ==
  /\ pc = "pool"
  /\ Len(tasks) = Len(resumo)
  /\ i \in 1..Len(tasks)
  /\ tasks[i].st = "done"
  /\ ~tasks[i].seen
  /\ tasks' = [tasks EXCEPT ![i].seen = TRUE]
  /\ detalhes' =
       IF Truthy(detalhe(tasks[i].id, tasks[i].resp))
         THEN DictSet(detalhes, tasks[i].id, Val(detalhe(tasks[i].id, tasks[i].resp)))
         ELSE detalhes
  /\ thread' = "main"
  /\ UNCHANGED << pc, steps, envVars, janela, sellers, seller, listVars,
                  outVars, logs, exc, fnVars >>

\* the loop over as_completed ends and the with block is left
PoolExit ==
  /\ pc = "pool"
  /\ Esgotado(tasks, resumo)
  /\ pc' = "project"
  /\ steps' = Append(steps, "details")
  /\ thread' = "main"
  /\ UNCHANGED << envVars, janela, sellers, seller, listVars, poolVars,
                  outVars, logs, exc, fnVars >>

(***************************************************************************)
(* The rest of main.                                                       *)
(***************************************************************************)
\* "for o in resumo: ... linhas.extend(gerar_linhas(...))"
Project ==
  /\ pc = "project"
  /\ linhas' = Projetar(resumo, detalhes, seller)
  /\ pc' = "raw"
  /\ steps' = Append(steps, "rows")
  /\ thread' = "main"
  /\ UNCHANGED << envVars, janela, sellers, seller, listVars, poolVars, bruto,
                  final, smtp, logs, exc, fnVars >>

\* pd.DataFrame(linhas).drop_duplicates().to_excel(bruto)
WriteRaw ==
  /\ pc = "raw"
  /\ bruto' = Some(ToExcel(linhas))
  /\ pc' = "circ"
  /\ steps' = Append(steps, "raw")
  /\ thread' = "main"
  /\ UNCHANGED << envVars, janela, sellers, seller, listVars, poolVars, linhas,
                  final, smtp, logs, exc, fnVars >>

\* final = circularizar(bruto, sufixo)
Circularizar ==
  /\ pc = "circ"
  /\ IF circularizar(Val(bruto)).ok
       THEN /\ final' = Some(circularizar(Val(bruto)).rows)
            /\ pc' = "email"
            /\ steps' = Append(steps, "final")
            /\ UNCHANGED exc
       ELSE /\ Raise(circularizar(Val(bruto)).exc)
            /\ UNCHANGED << final, steps >>
  /\ thread' = "main"
  /\ UNCHANGED << envVars, janela, sellers, seller, listVars, poolVars, linhas,
                  bruto, smtp, logs, fnVars >>

\* how the SMTP session may end: delivered, or an exception while
\* connecting, in login or in sendmail
SmtpOutcomes == {"ok", "connect", "login", "send"}

\* enviar_email(final, seller, data_brt)
EnviarEmail(outcome) ==
  /\ pc = "email"
  /\ thread' = "main"
  /\ IF limpar_emails(seller.emailTo) = <<>>
       THEN /\ outcome = "ok"
            /\ logs' = Append(logs, "warning: no emailTo")
            /\ pc' = "log"
            /\ steps' = Append(steps, "email")
            /\ UNCHANGED << smtp, exc >>
       ELSE /\ smtp' = Append(smtp,
                 [to |-> limpar_emails(seller.emailTo),
                  cc |-> limpar_emails(seller.emailCc),
                  attachment |-> final,
                  sendmail |-> IF outcome \in {"ok", "send"}
                                 THEN Some(limpar_emails(seller.emailTo)
                                           \o limpar_emails(seller.emailCc))
                                 ELSE None])
            /\ IF outcome = "ok"
                 THEN /\ logs' = Append(logs, "email sent")
                      /\ pc' = "log"
                      /\ steps' = Append(steps, "email")
                      /\ UNCHANGED exc
                 ELSE /\ Raise("SMTPException")
                      /\ UNCHANGED << logs, steps >>
  /\ UNCHANGED << envVars, janela, sellers, seller, listVars, poolVars, linhas,
                  bruto, final, fnVars >>

\* log("Processo finalizado com sucesso.")
LogSuccess ==
  /\ pc = "log"
  /\ logs' = Append(logs, "success")
  /\ pc' = "done"
  /\ steps' = Append(steps, "success")
  /\ thread' = "main"
  /\ UNCHANGED << envVars, janela, sellers, seller, listVars, poolVars, outVars,
                  exc, fnVars >>

Next ==
  \/ JanelaOntem
  \/ CarregarSellers
  \/ SelectSeller
  \/ \E kind \in {"ok", "status", "raise"}, n \in lens \cup {0} : ListPage(kind, n)
  \/ Submit
  \/ \E i \in 1..MaxOrders : WorkerStart(i)
  \/ \E i \in 1..MaxOrders, resp \in DetailResps : WorkerFinish(i, resp)
  \/ \E i \in 1..MaxOrders : Merge(i)
  \/ PoolExit
  \/ Project
  \/ WriteRaw
  \/ Circularizar
  \/ \E outcome \in SmtpOutcomes : EnviarEmail(outcome)
  \/ LogSuccess

Spec == Init /\ [][Next]_vars

(***************************************************************************)
(* The pool under the scheduling the interpreter gives: every pool thread  *)
(* keeps running, and every HTTP request ends (answer or HTTP_TIMEOUT).    *)
(* The detail endpoint answers with a record or not at all.                *)
(***************************************************************************)
InitPool ==
  /\ pc = "janela"
  /\ steps = <<>>
  /\ thread = "main"
  /\ hoje \in Hojes
  /\ \E a \in Ambientes : cpu = a.cpu /\ config = a.config
  /\ lens = 0..MaxOrders
  /\ resps = {"ok", "timeout"}
  /\ janela = None
  /\ sellers = <<>>
  /\ seller = NoSeller
  /\ page = 1
  /\ orders = <<>>
  /\ requests = <<>>
  /\ resumo = <<>>
  /\ tasks = <<>>
  /\ detalhes = <<>>
  /\ linhas = <<>>
  /\ bruto = None
  /\ final = None
  /\ smtp = <<>>
  /\ logs = <<>>
  /\ exc = ""
  /\ arg = None
  /\ ret = None

FairSpec ==
  /\ InitPool
  /\ [][Next]_vars
  /\ WF_vars(Submit)
  /\ \A i \in 1..MaxOrders : WF_vars(WorkerStart(i))
  /\ \A i \in 1..MaxOrders : WF_vars(\E resp \in DetailResps : WorkerFinish(i, resp))

(***************************************************************************)
(* listar_resumo on its own, against a server that answers every page      *)
(* with 0 to PER_PAGE items, a status other than 200 or no answer at all.  *)
(***************************************************************************)
SeqsUpTo(S, n) == UNION {[1..k -> S] : k \in 0..n}

InitList ==
  /\ pc = "list"
  /\ steps = <<"window", "sellers", "select">>
  /\ thread = "main"
  /\ hoje \in Hojes
  /\ cpu = 1
  /\ config = CfgEnvia
  /\ lens = 0..PER_PAGE
  /\ resps = DetailResps
  /\ janela = Some([ontem |-> PrevDay(hoje), data_brt |-> StrfDMY(PrevDay(hoje))])
  /\ sellers = carregar_sellers(config)
  /\ seller = Head(sellers_farma(sellers))
  /\ page = 1
  /\ orders = <<>>
  /\ requests = <<>>
  /\ resumo = <<>>
  /\ tasks = <<>>
  /\ detalhes = <<>>
  /\ linhas = <<>>
  /\ bruto = None
  /\ final = None
  /\ smtp = <<>>
  /\ logs = <<"sellers">>
  /\ exc = ""
  /\ arg = None
  /\ ret = None

NextList ==
  \E kind \in {"ok", "status", "raise"}, n \in lens \cup {0} : ListPage(kind, n)

SpecList == InitList /\ [][NextList]_vars

(***************************************************************************)
(* gerar_linhas on its own, over bounded orders and sellers.               *)
(***************************************************************************)
SellerLists ==
  { <<>>, << [id |-> S_farmaconde] >>, << [id |-> S_other] >>,
    << [id |-> S_other], [id |-> S_farmaconde] >> }

TotalsLists ==
  { <<>>,
    << [id |-> "Items", value |-> 1990] >>,
    << [id |-> "Shipping", value |-> 1090], [id |-> "Items", value |-> 1990] >>,
    << [id |-> "Items", value |-> 5], [id |-> "Discounts", value |-> 100],
       [id |-> "Items", value |-> 700], [id |-> "Shipping", value |-> 95] >> }

Payments == {[installments |-> None], [installments |-> Some(3)]}

Transactions == {[payments |-> ps] : ps \in SeqsUpTo(Payments, MaxPay)}

OrdersIn ==
  { [orderId |-> 7,
     invoicedDate |-> Some([date |-> Date(2024, 3, 1), hour |-> 2]),
     sellers |-> ss, totals |-> ts, transactions |-> txs] :
    ss \in SellerLists, ts \in TotalsLists, txs \in SeqsUpTo(Transactions, MaxTx) }

SellersIn ==
  { [id |-> S_farmaconde, display |-> S_FarmaConde, emailTo |-> <<S_ax>>,
     emailCc |-> <<>>],
    [id |-> <<"F">> \o Tail(S_farmaconde), display |-> S_FarmaConde,
     emailTo |-> <<S_ax>>, emailCc |-> <<>>] }

InitRows ==
  /\ pc = "gerar_linhas"
  /\ steps = <<>>
  /\ thread = "main"
  /\ hoje \in Hojes
  /\ cpu = 1
  /\ config = CfgEnvia
  /\ lens = {}
  /\ resps = DetailResps
  /\ janela = None
  /\ sellers = <<>>
  /\ seller = NoSeller
  /\ page = 1
  /\ orders = <<>>
  /\ requests = <<>>
  /\ resumo = <<>>
  /\ tasks = <<>>
  /\ detalhes = <<>>
  /\ linhas = <<>>
  /\ bruto = None
  /\ final = None
  /\ smtp = <<>>
  /\ logs = <<>>
  /\ exc = ""
  /\ arg \in {Some([order |-> o, seller |-> s]) : o \in OrdersIn, s \in SellersIn}
  /\ ret = None

\* a call of gerar_linhas(order, seller)
GerarLinhas ==
  /\ pc = "gerar_linhas"
  /\ ret = None
  /\ ret' = Some(gerar_linhas(Val(arg).order, Val(arg).seller))
  /\ UNCHANGED << pc, steps, thread, envVars, janela, sellers, seller, listVars,
                  poolVars, outVars, logs, exc, arg >>

SpecRows == InitRows /\ [][GerarLinhas]_vars

(***************************************************************************)
(* circularizar on its own, over bounded raw files.                        *)
(***************************************************************************)
Dates ==
  { Date(y, m, d) : y \in 2023..(2022 + NumYears), m \in 1..12, d \in 1..31 }
  \ { dt \in [y : 2023..(2022 + NumYears), m : 1..12, d : 29..31] :
        dt.d > DaysInMonth(dt.y, dt.m) }

ParcelasVals == {None} \cup {Some(n) : n \in {0, 1, 2, 11, 12, 13, MaxParcelas}}

\* a row of the raw file, as main writes it
RawRow(dt, parcelas) ==
  [Faturado |-> StrfDMY(dt), Pedido |-> 7, Seller |-> S_FarmaConde,
   Total_itens |-> Cents(1990), Frete |-> Cents(500),
   Valor_total |-> Cents(2490), Parcelas |-> parcelas]

KeyRows ==
  { RawRow(dt, n) : dt \in {Date(2024, 6, 28), Date(2024, 1, 31)},
                    n \in {None, Some(0), Some(3)} }

RawFiles ==
  {ToExcel(<<>>)}
  \cup {ToExcel(<<RawRow(dt, n)>>) : dt \in Dates, n \in ParcelasVals}
  \cup {ToExcel(rs) : rs \in UNION {[1..k -> KeyRows] : k \in 2..MaxRows}}

InitCirc ==
  /\ pc = "circularizar"
  /\ steps = <<>>
  /\ thread = "main"
  /\ hoje \in Hojes
  /\ cpu = 1
  /\ config = CfgEnvia
  /\ lens = {}
  /\ resps = DetailResps
  /\ janela = None
  /\ sellers = <<>>
  /\ seller = NoSeller
  /\ page = 1
  /\ orders = <<>>
  /\ requests = <<>>
  /\ resumo = <<>>
  /\ tasks = <<>>
  /\ detalhes = <<>>
  /\ linhas = <<>>
  /\ bruto = None
  /\ final = None
  /\ smtp = <<>>
  /\ logs = <<>>
  /\ exc = ""
  /\ arg \in {Some(f) : f \in RawFiles}
  /\ ret = None

\* a call of circularizar(path, sufixo) on the file arg
CircularizarCall ==
  /\ pc = "circularizar"
  /\ ret = None
  /\ ret' = Some(circularizar(Val(arg)))
  /\ UNCHANGED << pc, steps, thread, envVars, janela, sellers, seller, listVars,
                  poolVars, outVars, logs, exc, arg >>

SpecCirc == InitCirc /\ [][CircularizarCall]_vars

(***************************************************************************)
(* main with one invoiced order, over the recipient cells of the seller    *)
(* directory.  Each case pairs a cell with the addresses it holds.         *)
(***************************************************************************)
ToCases ==
  { [cell |-> None, clean |-> <<>>],
    [cell |-> Some(<<>>), clean |-> <<>>],
    [cell |-> Some(<<" ", " ">>), clean |-> <<>>],
    [cell |-> Some(<<"n", "a", "n">>), clean |-> <<>>],
    [cell |-> Some(<<" ", "N", "a", "N", ";", ";", " ">>), clean |-> <<>>],
    [cell |-> Some(S_ax), clean |-> <<S_ax>>],
    [cell |-> Some(<<" ">> \o S_ax \o <<" ", ";", "n", "a", "n", ";">> \o S_by),
     clean |-> <<S_ax, S_by>>],
    [cell |-> Some(<<";">> \o S_by \o <<";", " ">>), clean |-> <<S_by>>] }

CcCases ==
  { [cell |-> None, clean |-> <<>>],
    [cell |-> Some(<<" ", ";", "N", "A", "N">>), clean |-> <<>>],
    [cell |-> Some(S_cz \o <<" ">>), clean |-> <<S_cz>>],
    [cell |-> Some(S_cz \o <<";", " ">> \o S_ax), clean |-> <<S_cz, S_ax>>] }

InitMail ==
  /\ pc = "janela"
  /\ steps = <<>>
  /\ thread = "main"
  /\ hoje \in Hojes
  /\ cpu = 1
  /\ \E t \in ToCases, c \in CcCases :
       config = << ConfigRow(Some(S_sim), Some(S_farmaconde), Some(S_FarmaConde),
                             t.cell, c.cell) >>
  /\ lens = {1}
  /\ resps = DetailResps
  /\ janela = None
  /\ sellers = <<>>
  /\ seller = NoSeller
  /\ page = 1
  /\ orders = <<>>
  /\ requests = <<>>
  /\ resumo = <<>>
  /\ tasks = <<>>
  /\ detalhes = <<>>
  /\ linhas = <<>>
  /\ bruto = None
  /\ final = None
  /\ smtp = <<>>
  /\ logs = <<>>
  /\ exc = ""
  /\ arg = None
  /\ ret = None

SpecMail == InitMail /\ [][Next]_vars

(***************************************************************************)
(* Properties.                                                             *)
(***************************************************************************)
\* an amount in minor units
ToCents(a) == (a.int * 100) + a.cent

\* the number of payments of the first t transactions of an order
RECURSIVE PairCount(_, _)
PairCount(o, t) ==
  IF t = 0 THEN 0 ELSE PairCount(o, t - 1) + Len(o.transactions[t].payments)

\* C4: gerar_linhas returns no row when the seller's id is not among the ids
\* of the order's seller participants; otherwise one row per (transaction,
\* payment) pair, in transaction-then-payment order, each with that payment's
\* installment count and with the same items total, shipping total and
\* grand total = items total + shipping total as every other row.
C4_RowProjector ==
  ret # None /\ pc = "gerar_linhas" =>
    LET o == Val(arg).order
        s == Val(arg).seller
        rows == Val(ret)
    IN IF \A i \in 1..Len(o.sellers) : o.sellers[i].id # s.id
         THEN rows = <<>>
         ELSE /\ Len(rows) = PairCount(o, Len(o.transactions))
              /\ \A t \in 1..Len(o.transactions) :
                   \A j \in 1..Len(o.transactions[t].payments) :
                     rows[PairCount(o, t - 1) + j].Parcelas =
                       o.transactions[t].payments[j].installments
              /\ \A a \in 1..Len(rows) :
                   /\ ToCents(rows[a].Valor_total) =
                        ToCents(rows[a].Total_itens) + ToCents(rows[a].Frete)
                   /\ rows[a].Total_itens = rows[1].Total_itens
                   /\ rows[a].Frete = rows[1].Frete
                   /\ rows[a].Valor_total = rows[1].Valor_total

\* C4 witness: a participating seller and two transactions with payments,
\* projected to three rows or more whose installment counts differ and whose
\* grand total carries the cents of 19.90 + 10.90
C4_Witness ==
  /\ pc = "gerar_linhas"
  /\ ret # None
  /\ Len(Val(ret)) >= 3
  /\ Len(Val(arg).order.transactions) = 2
  /\ Val(ret)[1].Valor_total = Cents(3080)
  /\ Val(ret)[1].Parcelas # Val(ret)[2].Parcelas

\* the rows of the frame circularizar wrote, when it wrote one
CircOut == IF ret # None /\ pc = "circularizar" /\ Val(ret).ok THEN Val(ret).rows ELSE <<>>

\* the rows of the raw file with a positive installment count
Positivas(file) ==
  {file.rows[i] : i \in {k \in 1..Len(file.rows) :
                           /\ ~IsNone(file.rows[k].Parcelas)
                           /\ Val(file.rows[k].Parcelas) > 0}}

\* C6: in the file circularizar writes, every row with a positive installment
\* count n has exactly the columns Parcela 1 .. Parcela min(n, 12) filled and
\* the others up to Parcela 12 empty, and has no column beyond the 12th.
C6_DueDateCount ==
  /\ \A i \in 1..Len(CircOut) :
       LET r == CircOut[i]
       IN /\ DOMAIN r.parc = 1..12
          /\ ~IsNone(r.raw.Parcelas) /\ Val(r.raw.Parcelas) > 0 =>
               \A c \in 1..12 :
                 ~IsNone(r.parc[c]) <=> (c <= Val(r.raw.Parcelas) /\ c <= 12)
  /\ ret # None /\ pc = "circularizar" /\ Val(ret).ok =>
       \A r \in Positivas(Val(arg)) : \E i \in 1..Len(CircOut) : CircOut[i].raw = r

\* C6 witness: a written row with more than 12 installments, 12 columns filled
C6_Witness ==
  \E i \in 1..Len(CircOut) :
    /\ Val(CircOut[i].raw.Parcelas) > 12
    /\ \A c \in 1..12 : ~IsNone(CircOut[i].parc[c])

\* Zeller's congruence: 0 = Saturday, 1 = Sunday, 2 = Monday, ...
Zeller(y, m, d) ==
  LET mm == IF m <= 2 THEN m + 12 ELSE m
      yy == IF m <= 2 THEN y - 1 ELSE y
      k == yy % 100
      j == yy \div 100
  IN (d + ((13 * (mm + 1)) \div 5) + k + (k \div 4) + (j \div 4) + (5 * j)) % 7

\* the date written in a dd/mm/yyyy cell, as [y, m, d]
Lida(cell) == ParseDMY(Val(cell))

\* C7: due date p of a row lies in the p-th calendar month after the invoiced
\* month; it is the 15th when the 15th is a weekday, Monday the 17th when the
\* 15th is a Saturday and Monday the 16th when it is a Sunday; so it never
\* falls on a weekend, its day is 15, 16 or 17, and due dates increase
\* strictly with p.  Invoiced 2024-06-28 gives due date 1 = 15/07/2024.
C7_DueDates ==
  \A i \in 1..Len(CircOut) :
    LET r == CircOut[i]
        inv == ParseDMY(r.raw.Faturado)
    IN \A p \in 1..12 :
         ~IsNone(r.parc[p]) =>
           LET due == Lida(r.parc[p])
               z == Zeller(due.y, due.m, 15)
           IN /\ (due.y * 12) + due.m = (inv.y * 12) + inv.m + p
              /\ due.d = (IF z = 0 THEN 17 ELSE IF z = 1 THEN 16 ELSE 15)
              /\ Zeller(due.y, due.m, due.d) \notin {0, 1}
              /\ (z \in {0, 1}) => Zeller(due.y, due.m, due.d) = 2
              /\ due.d \in {15, 16, 17}
              /\ p > 1 =>
                   /\ ~IsNone(r.parc[p - 1])
                   /\ LET ant == Lida(r.parc[p - 1])
                      IN (ant.y * 10000) + (ant.m * 100) + ant.d
                           < (due.y * 10000) + (due.m * 100) + due.d
              /\ (inv = Date(2024, 6, 28) /\ p = 1) =>
                   r.parc[p] = Some(<<"1", "5", "/", "0", "7", "/", "2", "0", "2", "4">>)

\* C7 witness: a row invoiced in May 2024 with 12 due dates, the first moved
\* from Saturday 15 June 2024 to the 17th and the fourth from Sunday
\* 15 September 2024 to the 16th
C7_Witness ==
  \E i \in 1..Len(CircOut) :
    /\ ParseDMY(CircOut[i].raw.Faturado) = Date(2024, 5, 31)
    /\ CircOut[i].parc[1] = Some(StrfDMY(Date(2024, 6, 17)))
    /\ CircOut[i].parc[4] = Some(StrfDMY(Date(2024, 9, 16)))
    /\ ~IsNone(CircOut[i].parc[12])

\* C5, as claimed: a raw file with rows whose installment count is missing
\* or zero is circularized without error, the file is written, and those
\* rows have their 12 due-date columns empty.
C5_NullOrZero ==
  (/\ ret # None
   /\ pc = "circularizar"
   /\ \E k \in 1..Len(Val(arg).rows) :
        \/ IsNone(Val(arg).rows[k].Parcelas)
        \/ Val(arg).rows[k].Parcelas = Some(0))
  => /\ Val(ret).ok
     /\ \A i \in 1..Len(Val(ret).rows) :
          LET r == Val(ret).rows[i]
          IN (IsNone(r.raw.Parcelas) \/ r.raw.Parcelas = Some(0)) =>
               \A c \in 1..12 : IsNone(r.parc[c])

\* C2: listar_resumo requests the pages 1, 2, ... in order; it stops at the
\* first page that answers with fewer than 100 items, with an empty list or
\* with a status other than 200, and requests nothing after it; it returns
\* the items of the pages answered with status 200, in page order.  Pages of
\* 100, 100 and 37 items give 237 summaries in exactly 3 requests.
C2_Pagination ==
  LET n == Len(requests)
      cheia(i) == requests[i].kind = "ok" /\ requests[i].n >= 100
      total == IF n = 0 THEN 0
               ELSE ((n - 1) * 100) + (IF requests[n].kind = "ok" THEN requests[n].n ELSE 0)
  IN /\ \A i \in 1..n : requests[i].page = i
     /\ \A i \in 1..(n - 1) : cheia(i)
     /\ pc = "list" => \A i \in 1..n : cheia(i)
     /\ pc = "pool" =>
          /\ n >= 1
          /\ ~cheia(n)
          /\ requests[n].kind \in {"ok", "status"}
          /\ resumo = [k \in 1..total |-> [orderId |-> k]]
          /\ (n = 3 /\ requests[3].kind = "ok" /\ requests[3].n = 37) =>
               Len(resumo) = 237

\* C2 witness: pages of 100, 100 and 37 items, 237 summaries returned
C2_Witness ==
  /\ pc = "pool"
  /\ Len(requests) = 3
  /\ requests[3].kind = "ok"
  /\ requests[3].n = 37
  /\ Len(resumo) = 237

\* C3, as claimed: a list request that times out or raises a network error
\* ends the pagination silently: listar_resumo returns the summaries of the
\* earlier pages and the run goes on with them.
C3_SilentTermination ==
  (requests # <<>> /\ requests[Len(requests)].kind = "raise") =>
    /\ pc # "failed"
    /\ exc = ""
    /\ resumo = orders

\* C1: the mapping holds only ids whose detail fetch answered 200 with a
\* record; once the pool is left it holds exactly those ids, each with its
\* record, one fetch was made per summary, and a fetch that timed out,
\* raised or answered another status neither aborts the run in the pool nor
\* removes the entry of another id.
C1_DetailMapping ==
  LET ok == {tasks[i].id : i \in {k \in 1..Len(tasks) : tasks[k].resp = "ok"}}
      merged == {tasks[i].id : i \in {k \in 1..Len(tasks) :
                                        tasks[k].resp = "ok" /\ tasks[k].seen}}
  IN /\ DOMAIN detalhes = merged
     /\ \A id \in DOMAIN detalhes : detalhes[id].orderId = id
     /\ Len(steps) = 4 => pc = "pool"
     /\ Len(steps) >= 5 =>
          /\ DOMAIN detalhes = ok
          /\ Len(tasks) = Len(resumo)
          /\ \A i \in 1..Len(tasks) : tasks[i].id = resumo[i].orderId

\* C1 witness: the pool left with 3 ids fetched, 2 answered with a record
\* and 1 timed out, and exactly 2 entries in the mapping
C1_Witness ==
  /\ Len(steps) >= 5
  /\ Len(tasks) = 3
  /\ Cardinality({i \in 1..3 : tasks[i].resp = "ok"}) = 2
  /\ Cardinality({i \in 1..3 : tasks[i].resp = "timeout"}) = 1
  /\ Cardinality(DOMAIN detalhes) = 2

\* the number of steps completed at each position of main
PcAt ==
  [p \in {"janela", "carregar", "select", "list", "pool", "project", "raw",
          "circ", "email", "log", "done"} |->
     CASE p = "janela" -> 0 [] p = "carregar" -> 1 [] p = "select" -> 2
       [] p = "list" -> 3 [] p = "pool" -> 4 [] p = "project" -> 5
       [] p = "raw" -> 6 [] p = "circ" -> 7 [] p = "email" -> 8
       [] p = "log" -> 9 [] p = "done" -> 10]

\* C9: the steps of main complete in the order window, sellers, select,
\* summaries, details, rows, raw file, final file, email, success, one at a
\* time: nothing of a step exists before the step before it is complete;
\* every detail fetch issued is complete before a row is projected, a failed
\* fetch does not end the pool step early, and the email is sent only after
\* the circularized file is written, with that file.
C9_StepOrder ==
  /\ steps = SubSeq(StepOrder, 1, Len(steps))
  /\ pc \in DOMAIN PcAt => Len(steps) = PcAt[pc]
  /\ pc = "returned" => Len(steps) = 2
  /\ ~IsNone(janela) <=> Len(steps) >= 1
  /\ sellers # <<>> => Len(steps) >= 2
  /\ seller # NoSeller => Len(steps) >= 3
  /\ requests # <<>> => Len(steps) >= 3
  /\ tasks # <<>> => Len(steps) >= 4
  /\ Len(steps) = 4 => pc = "pool"
  /\ Len(steps) >= 5 =>
       /\ Len(tasks) = Len(resumo)
       /\ \A i \in 1..Len(tasks) : tasks[i].st = "done"
  /\ linhas # <<>> => Len(steps) >= 6
  /\ ~IsNone(bruto) <=> Len(steps) >= 7
  /\ ~IsNone(final) <=> Len(steps) >= 8
  /\ smtp # <<>> =>
       /\ Len(steps) >= 8
       /\ ~IsNone(final)
       /\ smtp[1].attachment = final
  /\ (\E k \in 1..Len(logs) : logs[k] = "success") <=> Len(steps) = 10

\* C9 witness: a run that ended in success although a detail fetch timed
\* out and another answered a status other than 200
C9_Witness ==
  /\ pc = "done"
  /\ smtp # <<>>
  /\ \E i \in 1..Len(tasks) : tasks[i].resp = "timeout"
  /\ \E i \in 1..Len(tasks) : tasks[i].resp = "status"

\* the recipient cases of the seller directory of this run
CasoTo == CHOOSE t \in ToCases : t.cell = config[1].emailTo
CasoCc == CHOOSE c \in CcCases : c.cell = config[1].emailCc

\* C8: when the To list is empty after cleaning, enviar_email opens no SMTP
\* session, logs a warning, raises nothing, and main goes on to log success;
\* otherwise it makes exactly one SMTP submission, whose sendmail is
\* addressed to the cleaned To addresses followed by the cleaned Cc ones.
C8_EmptyTo ==
  LET vazio == CasoTo.clean = <<>>
      rodou == Len(steps) >= 9 \/ (pc = "failed" /\ exc = "SMTPException")
      dest == Some(CasoTo.clean \o CasoCc.clean)
  IN /\ Len(smtp) <= 1
     /\ vazio => smtp = <<>> /\ exc # "SMTPException"
     /\ (vazio /\ Len(steps) >= 9) =>
          /\ pc \in {"log", "done"}
          /\ exc = ""
          /\ \E k \in 1..Len(logs) : logs[k] = "warning: no emailTo"
     /\ (~vazio /\ rodou) =>
          /\ Len(smtp) = 1
          /\ smtp[1].to = CasoTo.clean
          /\ smtp[1].cc = CasoCc.clean
          /\ smtp[1].sendmail \in {None, dest}
          /\ Len(steps) >= 9 => smtp[1].sendmail = dest
     /\ (~vazio /\ ~rodou) => smtp = <<>>

\* C8 witness: a To cell holding only blanks, empty tokens and "NaN", no
\* SMTP session, and the run at its normal end
C8_Witness ==
  /\ pc = "done"
  /\ config[1].emailTo = Some(<<" ", "N", "a", "N", ";", ";", " ">>)
  /\ smtp = <<>>
  /\ logs[Len(logs)] = "success"

\* C10: at most min(32, 4 x available parallelism) detail requests are in
\* flight at any time, however many ids are submitted; the mapping is written
\* only by the main thread, after every id is submitted; and every id
\* submitted is eventually fetched.
C10_Pool ==
  /\ [](LET par == IF cpu = 0 THEN 4 ELSE cpu
            voo == Cardinality({i \in 1..Len(tasks) : tasks[i].st = "running"})
        IN voo <= 4 * par /\ voo <= 32)
  /\ [][detalhes' # detalhes =>
          thread' = "main" /\ pc = "pool" /\ Len(tasks) = Len(resumo)]_vars
  /\ \A i \in 1..MaxOrders :
       (Len(tasks) >= i) ~> (Len(tasks) >= i /\ tasks[i].st = "done")

\* C10 witness: 5 ids submitted, 4 requests in flight on a pool of 4 and the
\* fifth waiting
C10_Witness ==
  /\ cpu = 1
  /\ Len(tasks) >= 5
  /\ Cardinality({i \in 1..Len(tasks) : tasks[i].st = "running"}) = 4
  /\ \E i \in 1..Len(tasks) : tasks[i].st = "pending"

====
